---- MODULE Spec2Model ----
(***************************************************************************)
(* A model of streamlit_app/app.py, the DuckDB Snowflake Explorer.         *)
(*                                                                         *)
(* The program is a Streamlit script: every user interaction re-runs the   *)
(* script from top to bottom against the persistent st.session_state.      *)
(* One action of the model is one such script run, for one click.          *)
(*                                                                         *)
(* Texts (SQL statements, previews) are sequences of atoms.  An atom is    *)
(* the single quote, the semicolon, a blank, or a run of characters that   *)
(* holds none of these.  The empty text <<>> is Python's "".               *)
(* The embedded engine and the remote warehouse are the environment: each  *)
(* statement handed to conn.execute gets an outcome chosen by the          *)
(* environment (success with a result frame, or an exception text).        *)
(***************************************************************************)
EXTENDS Integers, Sequences, FiniteSets, TLC

VARIABLES
    session_state,   \* st.session_state: the fields of _DEFAULTS
    secrets,         \* names of the secrets held by the engine behind the cached handle
    opened,          \* number of engine instances opened so far (duckdb.connect calls)
    log,             \* statements handed to conn.execute during the last script run
    tabs_rendered,   \* whether the last script run rendered the tabs (their buttons exist)
    clicked,         \* the button whose click caused the last script run
    call,            \* last direct call of a helper function: its name and arguments
    ret              \* what that call returned

vars == <<session_state, secrets, opened, log, tabs_rendered, clicked, call, ret>>

-----------------------------------------------------------------------------
(* Values *)

None == "None"                \* Python's None, where the other values are names
NoneDf == [none |-> TRUE]     \* None, where the other values are frames
NoneConn == 0                 \* None, where the other values are engine handles 1, 2, ...
NULL == "NULL"                \* a null cell of a frame
Quote == "'"
Semi == ";"
Blank == " "

ReservedSecret == "sf_explorer_secret"

RECURSIVE Join(_, _)
\* sep.join(parts), for texts
Join(parts, sep) ==
    IF parts = <<>> THEN <<>>
    ELSE IF Len(parts) = 1 THEN parts[1]
    ELSE parts[1] \o sep \o Join(Tail(parts), sep)

RECURSIVE Strip(_)
RECURSIVE LStrip(_)
LStrip(t) == IF t # <<>> /\ Head(t) = Blank THEN LStrip(Tail(t)) ELSE t

Strip(t) ==
    LET l == LStrip(t)
    IN IF l # <<>> /\ l[Len(l)] = Blank THEN Strip(SubSeq(l, 1, Len(l) - 1)) ELSE l

RECURSIVE RStripSemi(_)
RStripSemi(t) ==
    IF t # <<>> /\ t[Len(t)] = Semi THEN RStripSemi(SubSeq(t, 1, Len(t) - 1)) ELSE t

RECURSIVE SplitSemi(_)
\* t.split(";"): the pieces between semicolons, empty pieces included
SplitSemi(t) ==
    IF \A i \in 1..Len(t) : t[i] # Semi THEN <<t>>
    ELSE LET k == CHOOSE i \in 1..Len(t) : t[i] = Semi /\ \A j \in 1..(i - 1) : t[j] # Semi
         IN <<SubSeq(t, 1, k - 1)>> \o SplitSemi(SubSeq(t, k + 1, Len(t)))

RECURSIVE SelectNonEmpty(_)
SelectNonEmpty(ps) ==
    IF ps = <<>> THEN <<>>
    ELSE (IF Strip(Head(ps)) # <<>> THEN <<Strip(Head(ps))>> ELSE <<>>)
         \o SelectNonEmpty(Tail(ps))

-----------------------------------------------------------------------------
(* Result frames (pandas DataFrame): named columns and rows of cells *)

DfEmpty(df) == Len(df.columns) = 0 \/ Len(df.rows) = 0

RECURSIVE ColumnOf(_, _)
\* df.iloc[:, i] as a list of cells (i counted from 1)
ColumnOf(rows, i) ==
    IF rows = <<>> THEN <<>> ELSE <<Head(rows)[i]>> \o ColumnOf(Tail(rows), i)

RECURSIVE DropNa(_)
DropNa(cells) ==
    IF cells = <<>> THEN <<>>
    ELSE (IF Head(cells) = NULL THEN <<>> ELSE <<Head(cells)>>) \o DropNa(Tail(cells))

\* astype(str) of one cell: a null is rendered as the text None
AsStr(c) == IF c = NULL THEN "None" ELSE c

AsStrList(cells) == [i \in 1..Len(cells) |-> AsStr(cells[i])]

\* str.lower() on the column names the model uses
Lower(s) ==
    CASE s = "NAME" -> "name"
      [] s = "Name" -> "name"
      [] s = "KIND" -> "kind"
      [] OTHER -> s

-----------------------------------------------------------------------------
(* Session state *)

_DEFAULTS ==
    [ connected            |-> FALSE,
      secret_name          |-> "",
      attach_alias         |-> "",
      conn_string_preview  |-> <<>>,
      query_history        |-> <<>>,
      current_db           |-> None,
      current_schema       |-> None,
      current_table        |-> None,
      last_result          |-> NoneDf,
      last_query           |-> <<>>,
      last_elapsed         |-> 0,
      last_row_count       |-> 0,
      duckdb_conn          |-> NoneConn,
      extension_loaded     |-> FALSE ]

(* The machine a script run works on: the session, the engine behind the   *)
(* handle, the count of engines opened and the statements executed so far. *)
Machine(ss, se, op) == [ss |-> ss, secrets |-> se, opened |-> op, log |-> <<>>]

HasSecret(se, name) == \E i \in 1..Len(se) : se[i] = name

\* The engine's DROP SECRET IF EXISTS name
EngineDrop(se, name) == SelectSeq(se, LAMBDA s : s # name)

\* The engine's CREATE SECRET name (...)
EngineCreate(se, name) == Append(se, name)

DropHead == "DROP SECRET IF EXISTS "
CreateHead == "CREATE SECRET "
PassthroughHead == "SELECT * FROM snowflake_query("

(* What the engine refuses whatever the environment: a secret statement    *)
(* with no name, a CREATE SECRET of a name it already holds, a passthrough *)
(* call naming a secret it does not hold.                                  *)
EngineAccepts(se, sql) ==
    CASE sql # <<>> /\ sql[1] = DropHead -> sql[2] # ""
      [] sql # <<>> /\ sql[1] = CreateHead -> sql[2] # "" /\ ~HasSecret(se, sql[2])
      [] sql # <<>> /\ sql[1] = PassthroughHead -> HasSecret(se, sql[Len(sql) - 3])
      [] OTHER -> TRUE

EngineEffect(se, sql) ==
    CASE sql # <<>> /\ sql[1] = DropHead -> EngineDrop(se, sql[2])
      [] sql # <<>> /\ sql[1] = CreateHead -> EngineCreate(se, sql[2])
      [] OTHER -> se

\* Whether conn.execute(sql) returns, given that the environment would let it (want)
ExecOk(m, sql, want) == want /\ EngineAccepts(m.secrets, sql)

\* The statement is logged with its outcome; one that returned has its effect on the engine
Executed(m, sql, ok) ==
    [m EXCEPT !.log = Append(@, [sql |-> sql, ok |-> ok]),
              !.secrets = IF ok THEN EngineEffect(@, sql) ELSE @]

\* conn.execute(sql): the statement is handed to the engine, which answers or raises
Exec(m, sql, want) == Executed(m, sql, ExecOk(m, sql, want))

-----------------------------------------------------------------------------
(* DuckDB connection management *)

\* A defective variant: an engine is opened at every call, the cached handle ignored
GetDuckdbAlwaysOpens(m) ==
    [m EXCEPT !.ss.duckdb_conn = m.opened + 1,
              !.opened = m.opened + 1,
              !.secrets = <<>>]

_get_duckdb(m) ==
    IF m.ss.duckdb_conn = NoneConn
    THEN [m EXCEPT !.ss.duckdb_conn = m.opened + 1,
                   !.opened = m.opened + 1,
                   !.secrets = <<>>]
    ELSE m

InstallSql == <<"INSTALL snowflake FROM community", Semi>>
LoadSql == <<"LOAD snowflake", Semi>>
VersionSql == <<"SELECT snowflake_version()", Semi>>

\* _ensure_extension after the version query (m: the machine then)
ExtensionLoaded(m, o) ==
    [m |-> [m EXCEPT !.ss.extension_loaded = TRUE],
     ok |-> TRUE,
     detail |-> IF o.version THEN "1.0" ELSE "unknown"]

\* _ensure_extension after INSTALL and LOAD (m: the machine then)
ExtensionLoad(m, o) ==
    IF ~o.load
    THEN [m |-> m, ok |-> FALSE, detail |-> o.err]
    ELSE ExtensionLoaded(Exec(m, VersionSql, o.version), o)

\* A defective variant: the loaded flag is not consulted, every call installs and loads
EnsureExtensionReloads(m, o) ==
    ExtensionLoad(Exec(Exec(m, InstallSql, o.install), LoadSql, o.load), o)

\* o: the environment's answers to INSTALL, LOAD and the version query
_ensure_extension(m, o) ==
    IF m.ss.extension_loaded
    THEN [m |-> m, ok |-> TRUE, detail |-> "already loaded"]
    ELSE ExtensionLoad(Exec(Exec(m, InstallSql, o.install), LoadSql, o.load), o)

\* A defective variant: the password clause is added whatever the method
AuthPartsKeepPassword(p) ==
    (IF p.password # "" THEN << <<"PASSWORD ", Quote, p.password, Quote>> >> ELSE <<>>)
    \o (IF p.auth_method = "Key Pair"
        THEN << <<"AUTH_TYPE ", Quote, "key_pair", Quote>>,
                <<"PRIVATE_KEY ", Quote, p.private_key_pem, Quote>>,
                <<"PRIVATE_KEY_PASSPHRASE ", Quote, p.private_key_passphrase, Quote>> >>
        ELSE IF p.auth_method = "OAuth Token"
        THEN << <<"AUTH_TYPE ", Quote, "oauth", Quote>>,
                <<"TOKEN ", Quote, p.oauth_token, Quote>> >>
        ELSE <<>>)

AuthParts(p) ==
    IF p.auth_method = "Password"
    THEN << <<"PASSWORD ", Quote, p.password, Quote>> >>
    ELSE IF p.auth_method = "Key Pair"
    THEN << <<"AUTH_TYPE ", Quote, "key_pair", Quote>>,
            <<"PRIVATE_KEY ", Quote, p.private_key_pem, Quote>> >>
         \o (IF p.private_key_passphrase # ""
             THEN << <<"PRIVATE_KEY_PASSPHRASE ", Quote, p.private_key_passphrase, Quote>> >>
             ELSE <<>>)
    ELSE IF p.auth_method = "OAuth Token"
    THEN << <<"AUTH_TYPE ", Quote, "oauth", Quote>>,
            <<"TOKEN ", Quote, p.oauth_token, Quote>> >>
    ELSE <<>>

SecretParts(p) ==
    << <<"TYPE snowflake">>,
       <<"ACCOUNT ", Quote, p.account, Quote>>,
       <<"USER ", Quote, p.user, Quote>> >>
    \o AuthParts(p)
    \o (IF p.database # "" THEN << <<"DATABASE ", Quote, p.database, Quote>> >> ELSE <<>>)
    \o (IF p.warehouse # "" THEN << <<"WAREHOUSE ", Quote, p.warehouse, Quote>> >> ELSE <<>>)
    \o (IF p.role # "" THEN << <<"ROLE ", Quote, p.role, Quote>> >> ELSE <<>>)

DropSecretSql(secret_name) == <<DropHead, secret_name, Semi>>

CreateSecretSql(secret_name, p) ==
    <<CreateHead, secret_name, " (">> \o Join(SecretParts(p), <<", ">>) \o <<")", Semi>>

\* _create_secret after the DROP (m: the machine then): the CREATE and the return
SecretCreate(m, sql, o) ==
    IF ExecOk(m, sql, o.create)
    THEN [m |-> Exec(m, sql, o.create), ok |-> TRUE, msg |-> "Secret created"]
    ELSE [m |-> Exec(m, sql, o.create), ok |-> FALSE, msg |-> o.err]

\* A defective variant: a failed CREATE is retried once
CreateSecretRetries(m, secret_name, p, o) ==
    IF ExecOk(Exec(m, DropSecretSql(secret_name), o.drop), CreateSecretSql(secret_name, p), o.create)
    THEN SecretCreate(Exec(m, DropSecretSql(secret_name), o.drop),
                      CreateSecretSql(secret_name, p), o)
    ELSE SecretCreate(Exec(Exec(m, DropSecretSql(secret_name), o.drop),
                           CreateSecretSql(secret_name, p), o.create),
                      CreateSecretSql(secret_name, p), o)

\* o: the environment's answers to the DROP and the CREATE
_create_secret(m, secret_name, p, o) ==
    SecretCreate(Exec(m, DropSecretSql(secret_name), o.drop), CreateSecretSql(secret_name, p), o)

TestSql(secret_name) ==
    <<PassthroughHead, Quote,
      "SELECT CURRENT_VERSION() AS V, CURRENT_ACCOUNT() AS A, CURRENT_USER() AS U, CURRENT_ROLE() AS R",
      Quote, ", ", Quote, secret_name, Quote, ")", Semi>>

_test_connection_via_duckdb(m, secret_name, o) ==
    IF ExecOk(m, TestSql(secret_name), o.test)
    THEN [m |-> Exec(m, TestSql(secret_name), o.test), ok |-> TRUE, info |-> "Snowflake v..."]
    ELSE [m |-> Exec(m, TestSql(secret_name), o.test), ok |-> FALSE, info |-> o.err]

\* A defective variant: no except clause, the engine's exception leaves the function
RunQueryUncaught(m, sql, out) ==
    IF ExecOk(m, sql, out.ok)
    THEN [m |-> Exec(m, sql, out.ok), raised |-> FALSE,
          df |-> out.df, elapsed |-> out.elapsed, err |-> ""]
    ELSE [m |-> Exec(m, sql, out.ok), raised |-> TRUE,
          df |-> NoneDf, elapsed |-> 0, err |-> out.err]

\* out: the environment's answer to the statement: a frame and the time taken, or an error
_run_query_duckdb(m, sql, out) ==
    IF ExecOk(m, sql, out.ok)
    THEN [m |-> Exec(m, sql, out.ok), raised |-> FALSE,
          df |-> out.df, elapsed |-> out.elapsed, err |-> ""]
    ELSE [m |-> Exec(m, sql, out.ok), raised |-> FALSE,
          df |-> NoneDf, elapsed |-> 0, err |-> out.err]

RECURSIVE Replace(_, _, _)
\* str.replace(old, new) for a one-atom old
Replace(t, old, new) ==
    IF t = <<>> THEN <<>>
    ELSE (IF Head(t) = old THEN new ELSE <<Head(t)>>) \o Replace(Tail(t), old, new)

\* A defective variant: the text is embedded as it is
EscapedNot(sf_sql) == sf_sql

Escaped(sf_sql) == Replace(sf_sql, Quote, <<Quote, Quote>>)

Wrapper(sf_sql, secret) ==
    <<PassthroughHead, Quote>> \o Escaped(sf_sql) \o <<Quote, ", ", Quote, secret, Quote, ")", Semi>>

_snowflake_query(m, sf_sql, secret, out) == _run_query_duckdb(m, Wrapper(sf_sql, secret), out)

(* A column selector is a name, [name |-> "..."], or a position counted     *)
(* from 0, [index |-> 0].                                                  *)
ByName(n) == [name |-> n]
ByIndex(i) == [index |-> i]
IsName(col) == "name" \in DOMAIN col

\* A defective variant: the lookup compares the names as they are written
MatchColumnCaseSensitive(df, col) ==
    IF \E i \in 1..Len(df.columns) : df.columns[i] = col.name
    THEN CHOOSE i \in 1..Len(df.columns) :
            /\ df.columns[i] = col.name
            /\ \A j \in 1..(i - 1) : df.columns[j] # col.name
    ELSE 0

\* The first column whose lower-cased name is that of col, 0 when there is none
MatchColumn(df, col) ==
    IF \E i \in 1..Len(df.columns) : Lower(df.columns[i]) = Lower(col.name)
    THEN CHOOSE i \in 1..Len(df.columns) :
            /\ Lower(df.columns[i]) = Lower(col.name)
            /\ \A j \in 1..(i - 1) : Lower(df.columns[j]) # Lower(col.name)
    ELSE 0

\* The list _sf_fetch_list makes of a frame that is not empty (raised: an IndexError)
ListOf(df, col) ==
    IF IsName(col)
    THEN IF MatchColumn(df, col) # 0
         THEN [raised |-> FALSE, list |-> AsStrList(DropNa(ColumnOf(df.rows, MatchColumn(df, col))))]
         ELSE [raised |-> FALSE, list |-> AsStrList(ColumnOf(df.rows, 1))]
    ELSE IF col.index + 1 \in 1..Len(df.columns)
         THEN [raised |-> FALSE, list |-> AsStrList(ColumnOf(df.rows, col.index + 1))]
         ELSE [raised |-> TRUE, list |-> <<>>]

\* _sf_fetch_list after the query (r: what _snowflake_query returned)
Fetched(r, col) ==
    IF r.df # NoneDf /\ ~DfEmpty(r.df)
    THEN [m |-> r.m] @@ ListOf(r.df, col)
    ELSE [m |-> r.m, raised |-> FALSE, list |-> <<>>]

\* col: a column name, or a position counted from 0
_sf_fetch_list(m, sf_sql, secret, col, out) ==
    Fetched(_snowflake_query(m, sf_sql, secret, out), col)

-----------------------------------------------------------------------------
(* Sidebar *)

PreviewParts(p) ==
    << <<"account=", p.account>>, <<"user=", p.user>> >>
    \o (IF p.auth_method = "Password" THEN << <<"password=****">> >>
        ELSE IF p.auth_method = "Key Pair" THEN << <<"auth_type=key_pair", Semi, "private_key=****">> >>
        ELSE IF p.auth_method = "OAuth Token" THEN << <<"auth_type=oauth", Semi, "token=****">> >>
        ELSE <<>>)
    \o (IF p.warehouse # "" THEN << <<"warehouse=", p.warehouse>> >> ELSE <<>>)
    \o (IF p.database # "" THEN << <<"database=", p.database>> >> ELSE <<>>)
    \o (IF p.role # "" THEN << <<"role=", p.role>> >> ELSE <<>>)

\* The connect handler after the test query (t: what the test returned)
ConnectTested(t, p) ==
    IF t.ok
    THEN [t.m EXCEPT !.ss.connected = TRUE,
                     !.ss.secret_name = ReservedSecret,
                     !.ss.conn_string_preview = Join(PreviewParts(p), <<Semi>>)]
    ELSE t.m

\* A defective variant: the test query is sent whether or not the secret was created
ConnectSecretTestsAnyway(s, p, o) ==
    ConnectTested(_test_connection_via_duckdb(s.m, ReservedSecret, o), p)

\* The connect handler after the secret's creation (s: what _create_secret returned)
ConnectSecret(s, p, o) ==
    IF ~s.ok
    THEN s.m
    ELSE ConnectTested(_test_connection_via_duckdb(s.m, ReservedSecret, o), p)

\* The connect handler after the extension's load (e: what _ensure_extension returned)
ConnectExtension(e, p, o) ==
    IF ~e.ok
    THEN e.m
    ELSE ConnectSecret(_create_secret(e.m, ReservedSecret, p, o), p, o)

\* if connect_clicked: ...   (p: the sidebar's inputs, o: the environment's answers)
ConnectHandler(m, p, o) ==
    IF p.account = "" \/ p.user = ""
    THEN m
    ELSE ConnectExtension(_ensure_extension(_get_duckdb(m), o), p, o)

DetachSql(alias) == <<"DETACH ", alias, Semi>>

\* The disconnect handler's cleanup, after the DROP SECRET (m: the machine then)
DisconnectDetach(m, o) ==
    IF m.ss.attach_alias # ""
    THEN Exec(m, DetachSql(m.ss.attach_alias), o.detach)
    ELSE m

\* The best-effort cleanup of the engine at the head of the disconnect handler
DisconnectCleanup(m, o) ==
    IF m.ss.duckdb_conn # NoneConn
    THEN DisconnectDetach(Exec(m, DropSecretSql(m.ss.secret_name), o.drop), o)
    ELSE m

\* A defective variant: the history and the last result are reset as well
DisconnectResetAll(m) ==
    [m EXCEPT
        !.ss.connected = FALSE,
        !.ss.secret_name = "",
        !.ss.attach_alias = "",
        !.ss.current_db = None,
        !.ss.current_schema = None,
        !.ss.current_table = None,
        !.ss.extension_loaded = FALSE,
        !.ss.duckdb_conn = NoneConn,
        !.ss.query_history = <<>>,
        !.ss.last_result = NoneDf,
        !.secrets = <<>>]

\* The resets that end the disconnect handler; the engine goes with its handle
DisconnectReset(m) ==
    [m EXCEPT
        !.ss.connected = FALSE,
        !.ss.secret_name = "",
        !.ss.attach_alias = "",
        !.ss.current_db = None,
        !.ss.current_schema = None,
        !.ss.current_table = None,
        !.ss.extension_loaded = FALSE,
        !.ss.duckdb_conn = NoneConn,
        !.secrets = <<>>]

\* A defective variant: the resets sit inside the try, a failed DROP SECRET skips them
DisconnectResetsInTry(m, o) ==
    IF m.ss.duckdb_conn # NoneConn /\ ~ExecOk(m, DropSecretSql(m.ss.secret_name), o.drop)
    THEN DisconnectCleanup(m, o)
    ELSE DisconnectReset(DisconnectCleanup(m, o))

\* if disconnect_clicked: ...
DisconnectHandler(m, o) == DisconnectReset(DisconnectCleanup(m, o))

-----------------------------------------------------------------------------
(* Main area *)

ShowDatabasesSql == <<"SHOW DATABASES">>

SchemataSql(db) ==
    <<"SELECT SCHEMA_NAME FROM \"", db, "\".INFORMATION_SCHEMA.SCHEMATA ORDER BY 1">>

TablesSql(db, schema) ==
    <<"SELECT TABLE_NAME FROM \"", db, "\".INFORMATION_SCHEMA.TABLES WHERE TABLE_SCHEMA = ",
      Quote, schema, Quote, " ORDER BY 1">>

ColumnsSql(db, schema, table) ==
    <<"SELECT COLUMN_NAME, DATA_TYPE, IS_NULLABLE, CHARACTER_MAXIMUM_LENGTH, NUMERIC_PRECISION, NUMERIC_SCALE, COLUMN_DEFAULT FROM \"",
      db, "\".INFORMATION_SCHEMA.COLUMNS WHERE TABLE_SCHEMA = ", Quote, schema, Quote,
      " AND TABLE_NAME = ", Quote, table, Quote, " ORDER BY ORDINAL_POSITION">>

CountSql(db, schema, table) ==
    <<"SELECT COUNT(*) AS ROW_COUNT FROM \"", db, "\".\"", schema, "\".\"", table, "\"">>

PreviewSql(db, schema, table) ==
    <<"SELECT * FROM \"", db, "\".\"", schema, "\".\"", table, "\" LIMIT ", "100">>

\* st.selectbox: the selected option; the widgets are left at their default, the first one
Selected(options) == IF options # <<>> THEN options[1] ELSE None

Truthy(x) == x # None /\ x # ""

NoList(m) == [m |-> m, raised |-> FALSE, list |-> <<>>]

\* The "Load Preview" button of the selected table
BrowserPreview(m, secret, s, click, o) ==
    IF click = "load_preview"
    THEN _snowflake_query(m, PreviewSql(s.db, s.schema, s.table), secret, o.preview).m
    ELSE m

\* The column metadata and the row count of the selected table
BrowserMeta(m, secret, s, o) ==
    _snowflake_query(_snowflake_query(m, ColumnsSql(s.db, s.schema, s.table), secret, o.cols).m,
                     CountSql(s.db, s.schema, s.table), secret, o.cnt).m

\* tab_browser from "if selected_db and selected_schema and selected_table" (s: the selection)
BrowserSelected(m, secret, s, click, o) ==
    IF Truthy(s.db) /\ Truthy(s.schema) /\ Truthy(s.table)
    THEN BrowserPreview(BrowserMeta([m EXCEPT !.ss.current_db = s.db,
                                              !.ss.current_schema = s.schema,
                                              !.ss.current_table = s.table],
                                    secret, s, o),
                        secret, s, click, o)
    ELSE m

\* tab_browser after the tables were fetched (tb: what _sf_fetch_list returned)
BrowserTables(tb, secret, db, schema, click, o) ==
    BrowserSelected(tb.m, secret, [db |-> db, schema |-> schema, table |-> Selected(tb.list)],
                    click, o)

\* tab_browser after the schemas were fetched (sc: what _sf_fetch_list returned)
BrowserSchemas(sc, secret, db, click, o) ==
    BrowserTables(IF Truthy(db) /\ Truthy(Selected(sc.list))
                  THEN _sf_fetch_list(sc.m, TablesSql(db, Selected(sc.list)), secret,
                                      ByIndex(0), o.table)
                  ELSE NoList(sc.m),
                  secret, db, Selected(sc.list), click, o)

\* tab_browser after the databases were fetched (d: what _sf_fetch_list returned)
BrowserDatabases(d, secret, click, o) ==
    IF d.list = <<>>
    THEN [m |-> d.m, stopped |-> TRUE]
    ELSE [m |-> BrowserSchemas(IF Truthy(Selected(d.list))
                               THEN _sf_fetch_list(d.m, SchemataSql(Selected(d.list)), secret,
                                                   ByIndex(0), o.schema)
                               ELSE NoList(d.m),
                               secret, Selected(d.list), click, o),
          stopped |-> FALSE]

\* with tab_browser: ...   (stopped: st.stop() ended the script run)
TabBrowser(m, secret, click, o) ==
    BrowserDatabases(_sf_fetch_list(m, ShowDatabasesSql, secret, ByName("name"), o.db),
                     secret, click, o)

HistoryCap == 50

\* f"{elapsed:.2f}s", with elapsed counted in hundredths of a second
FormatTime(elapsed) == <<elapsed \div 100, ".", elapsed % 100, "s">>

(* time.strftime("%H:%M:%S") as a logical time: later than the time of the *)
(* entry now at the front of the history.                                  *)
Now(history) == IF history = <<>> THEN 1 ELSE history[1].ts + 1

Entry(sql, mode, df, elapsed, history) ==
    [sql |-> sql, mode |-> mode, rows |-> Len(df.rows), time |-> FormatTime(elapsed),
     ts |-> Now(history)]

\* A defective variant: the history is not truncated
HistoryInsertUncapped(history, entry) == <<entry>> \o history

\* history.insert(0, entry); history = history[:50]
HistoryInsert(history, entry) ==
    SubSeq(<<entry>> \o history, 1,
           IF Len(history) + 1 < HistoryCap THEN Len(history) + 1 ELSE HistoryCap)

SfQuery(click, sf_sql) ==
    IF click = "sf_run" /\ Strip(sf_sql) # <<>> THEN Strip(sf_sql)
    ELSE IF click = "sf_explain" /\ Strip(sf_sql) # <<>>
    THEN <<"EXPLAIN ">> \o RStripSemi(Strip(sf_sql))
    ELSE <<>>

\* A defective variant: a query that raised ends the connection
QueryRanDisconnects(r, sf_query) ==
    IF r.err # ""
    THEN [r.m EXCEPT !.ss.connected = FALSE]
    ELSE IF r.df # NoneDf
    THEN [r.m EXCEPT
            !.ss.last_result = r.df,
            !.ss.last_query = sf_query,
            !.ss.last_elapsed = r.elapsed,
            !.ss.last_row_count = Len(r.df.rows),
            !.ss.query_history =
                HistoryInsert(@, Entry(sf_query, "snowflake_query", r.df, r.elapsed, @))]
    ELSE r.m

\* A defective variant: a last result, once stored, is kept
QueryRanKeepsFirst(r, sf_query) ==
    IF r.err # ""
    THEN r.m
    ELSE IF r.df # NoneDf
    THEN [r.m EXCEPT
            !.ss.last_result = IF @ = NoneDf THEN r.df ELSE @,
            !.ss.last_query = sf_query,
            !.ss.last_elapsed = r.elapsed,
            !.ss.last_row_count = Len(r.df.rows),
            !.ss.query_history =
                HistoryInsert(@, Entry(sf_query, "snowflake_query", r.df, r.elapsed, @))]
    ELSE r.m

\* A defective variant: a query that raised is recorded in the history too
QueryRanRecordsErrors(r, sf_query) ==
    IF r.df # NoneDf
    THEN [r.m EXCEPT
            !.ss.last_result = r.df,
            !.ss.last_query = sf_query,
            !.ss.last_elapsed = r.elapsed,
            !.ss.last_row_count = Len(r.df.rows),
            !.ss.query_history =
                HistoryInsert(@, Entry(sf_query, "snowflake_query", r.df, r.elapsed, @))]
    ELSE [r.m EXCEPT
            !.ss.query_history =
                HistoryInsert(@, Entry(sf_query, "snowflake_query", [columns |-> <<>>, rows |-> <<>>],
                                       r.elapsed, @))]

\* tab_query after the query (r: what _snowflake_query returned)
QueryRan(r, sf_query) ==
    IF r.err # ""
    THEN r.m
    ELSE IF r.df # NoneDf
    THEN [r.m EXCEPT
            !.ss.last_result = r.df,
            !.ss.last_query = sf_query,
            !.ss.last_elapsed = r.elapsed,
            !.ss.last_row_count = Len(r.df.rows),
            !.ss.query_history =
                HistoryInsert(@, Entry(sf_query, "snowflake_query", r.df, r.elapsed, @))]
    ELSE r.m

\* with tab_query: ...
TabQuery(m, secret, click, sf_sql, out) ==
    IF SfQuery(click, sf_sql) # <<>>
    THEN QueryRan(_snowflake_query(m, SfQuery(click, sf_sql), secret, out), SfQuery(click, sf_sql))
    ELSE m

Statements(local_sql) == SelectNonEmpty(SplitSemi(RStripSemi(Strip(local_sql))))

\* tab_local after one statement (r: what _run_query_duckdb returned)
LocalRan(r, stmt) ==
    IF r.err # ""
    THEN r.m
    ELSE IF r.df # NoneDf
    THEN [r.m EXCEPT !.ss.query_history =
            HistoryInsert(@, Entry(stmt, "duckdb_local", r.df, r.elapsed, @))]
    ELSE r.m

RECURSIVE LocalLoop(_, _, _)
\* for stmt in statements: ...   (outs: the environment's answer to each statement)
LocalLoop(m, statements, outs) ==
    IF statements = <<>>
    THEN m
    ELSE LocalLoop(LocalRan(_run_query_duckdb(m, Head(statements), Head(outs)), Head(statements)),
                   Tail(statements), Tail(outs))

\* with tab_local: ...
TabLocal(m, click, local_sql, outs) ==
    IF click = "local_run" /\ Strip(local_sql) # <<>>
    THEN LocalLoop(m, Statements(local_sql), outs)
    ELSE m

\* with tab_history: ...
TabHistory(m, click) ==
    IF m.ss.query_history # <<>> /\ click = "clear_history"
    THEN [m EXCEPT !.ss.query_history = <<>>]
    ELSE m

\* The tabs after the browser (b: what it left, and whether it stopped the script)
Tabs(b, secret, click, u, o) ==
    IF b.stopped
    THEN [m |-> b.m, rendered |-> FALSE]
    ELSE [m |-> TabHistory(TabLocal(TabQuery(b.m, secret, click, u.sf_sql, o.query),
                                    click, u.local_sql, o.local),
                           click),
          rendered |-> TRUE]

\* The script below the sidebar.  u: what the user typed, o: the environment's answers
MainArea(m, click, u, o) ==
    IF ~m.ss.connected
    THEN [m |-> m, rendered |-> FALSE]
    ELSE Tabs(TabBrowser(_get_duckdb(m), m.ss.secret_name, click, o),
              m.ss.secret_name, click, u, o)

\* The sidebar's handlers
Sidebar(m, click, u, o) ==
    IF click = "connect" THEN ConnectHandler(m, u.params, o)
    ELSE IF click = "disconnect" THEN DisconnectHandler(m, o)
    ELSE m

\* One run of the script for one click
Script(m, click, u, o) == MainArea(Sidebar(m, click, u, o), click, u, o)

-----------------------------------------------------------------------------
(* The environment: what the user enters and what the engine answers *)

MaxHandles == 2      \* engines opened in one session
MaxRuns == 1         \* logical time up to which statements are run
MaxInserts == 52     \* the same, where the history is filled past its cap
MaxLocal == 1        \* local entries in the history, where it is filled past its cap

Fail(err) == [ok |-> FALSE, df |-> NoneDf, elapsed |-> 0, err |-> err]
Ok(df, elapsed) == [ok |-> TRUE, df |-> df, elapsed |-> elapsed, err |-> "unused"]

DfOne == [columns |-> <<"V">>, rows |-> << <<"1">> >>]
DfNoRows == [columns |-> <<"Count">>, rows |-> <<>>]
DfDatabases == [columns |-> <<"created_on", "name">>, rows |-> << <<"t0", "DB1">>, <<"t1", NULL>> >>]
DfSchemas == [columns |-> <<"SCHEMA_NAME">>, rows |-> << <<"PUBLIC">> >>]
DfTables == [columns |-> <<"TABLE_NAME">>, rows |-> << <<"T1">> >>]
DfColumns == [columns |-> <<"COLUMN_NAME", "DATA_TYPE">>, rows |-> << <<"ID", "NUMBER">> >>]
DfCount == [columns |-> <<"ROW_COUNT">>, rows |-> << <<"7">> >>]

Params(auth, account, user, password, token, pem, passphrase, warehouse, database, role) ==
    [auth_method |-> auth, account |-> account, user |-> user, password |-> password,
     oauth_token |-> token, private_key_pem |-> pem, private_key_passphrase |-> passphrase,
     warehouse |-> warehouse, database |-> database, role |-> role]

\* What the sidebar hands over: only the chosen method's fields are filled
SidebarParams ==
    { Params("Password", "xy12345", "alice", "secret", "", "", "", "", "DB", ""),
      Params("Password", "", "alice", "secret", "", "", "", "", "", "") }

ConnectOut(install, load, version, drop, create, test) ==
    [install |-> install, load |-> load, version |-> version, drop |-> drop,
     create |-> create, test |-> test, detach |-> TRUE, err |-> "ERR"]

(* The engine's answers to the statements of a connect attempt: all        *)
(* succeed, or one fails, or one fails after a failure that was swallowed  *)
ConnectOuts ==
    { ConnectOut(TRUE, TRUE, TRUE, TRUE, TRUE, TRUE),
      ConnectOut(FALSE, TRUE, TRUE, TRUE, TRUE, TRUE),
      ConnectOut(TRUE, FALSE, TRUE, TRUE, TRUE, TRUE),
      ConnectOut(FALSE, FALSE, TRUE, TRUE, TRUE, TRUE),
      ConnectOut(TRUE, TRUE, FALSE, TRUE, TRUE, TRUE),
      ConnectOut(TRUE, TRUE, TRUE, FALSE, TRUE, TRUE),
      ConnectOut(TRUE, TRUE, TRUE, TRUE, FALSE, TRUE),
      ConnectOut(TRUE, TRUE, TRUE, FALSE, FALSE, TRUE),
      ConnectOut(TRUE, TRUE, TRUE, TRUE, TRUE, FALSE),
      ConnectOut(TRUE, TRUE, TRUE, FALSE, TRUE, FALSE) }

DisconnectOuts ==
    [install : {TRUE}, load : {TRUE}, version : {TRUE}, drop : BOOLEAN,
     create : {TRUE}, test : {TRUE}, detach : BOOLEAN, err : {"ERR"}]

NoOuts ==
    [install |-> TRUE, load |-> TRUE, version |-> TRUE, drop |-> TRUE,
     create |-> TRUE, test |-> TRUE, detach |-> TRUE, err |-> "ERR"]

BrowserOut(db, schema, table, cols, cnt, preview) ==
    [db |-> db, schema |-> schema, table |-> table, cols |-> cols, cnt |-> cnt,
     preview |-> preview]

BrowserAllOk ==
    BrowserOut(Ok(DfDatabases, 1), Ok(DfSchemas, 1), Ok(DfTables, 1), Ok(DfColumns, 1),
               Ok(DfCount, 1), Ok(DfOne, 1))

\* The answers to the browser's fetches: the list of databases fails, or all succeed
BrowserOuts ==
    LET F == Fail("ERR")
    IN { BrowserOut(F, F, F, F, F, F), BrowserAllOk }

\* The same, where the preview is loaded
PreviewOuts == BrowserOuts \cup { [BrowserAllOk EXCEPT !.preview = Fail("ERR")] }

SqlSelect1 == <<"SELECT 1">>
SqlQuoted == <<Blank, "SELECT ", Quote, "a", Quote, Semi>>
LocalSelect == "SELECT version() AS duckdb_version"
LocalCreate == "CREATE TABLE t (i INTEGER)"

(* An environment: the texts the user may enter, the answers the engine    *)
(* may give to a run statement, and the bounds of the exploration.         *)
Env ==
    [ params     |-> SidebarParams,
      browser    |-> BrowserOuts,
      preview    |-> PreviewOuts,
      sf_sqls    |-> {SqlQuoted, <<Blank>>},
      sf_outs    |-> {Fail("ERR"), Ok(DfOne, 2), Ok(DfNoRows, 1)},
      local_sqls |-> { <<LocalCreate, Semi, Blank, LocalSelect, Semi>>,
                       <<DropHead, ReservedSecret, Semi>>,
                       <<Blank, Semi>> },
      local_outs |-> {Fail("ERR"), Ok(DfOne, 1)},
      max_ts     |-> MaxRuns,
      max_local  |-> MaxRuns + HistoryCap ]

\* The environment in which the history is filled past its cap
HistEnv ==
    [ params     |-> {},
      browser    |-> {BrowserAllOk},
      preview    |-> {BrowserAllOk},
      sf_sqls    |-> {SqlSelect1},
      sf_outs    |-> {Fail("ERR"), Ok(DfOne, 2)},
      local_sqls |-> { <<LocalSelect>> },
      local_outs |-> {Fail("ERR"), Ok(DfOne, 1)},
      max_ts     |-> MaxInserts,
      max_local  |-> MaxLocal ]

NoInput == [params |-> Params("Password", "", "", "", "", "", "", "", "", ""),
            sf_sql |-> <<>>, local_sql |-> <<>>]

\* The answers of one script run: of the sidebar (c), the browser (b), the run statements
Outs(c, b, query, local) == c @@ b @@ [query |-> query, local |-> local]

RECURSIVE SeqsOf(_, _)
\* The sequences of length n over S
SeqsOf(S, n) == IF n = 0 THEN {<<>>} ELSE {<<x>> \o t : x \in S, t \in SeqsOf(S, n - 1)}

LocalCount(history) == Cardinality({i \in 1..Len(history) : history[i].mode = "duckdb_local"})

-----------------------------------------------------------------------------
(* Actions: one script run each *)

NoCall == [fn |-> "none"]

\* The state after the run: the run's machine, and nothing called directly
Ran(click, r) ==
    /\ clicked' = click
    /\ session_state' = r.m.ss
    /\ secrets' = r.m.secrets
    /\ opened' = r.m.opened
    /\ log' = r.m.log
    /\ tabs_rendered' = r.rendered
    /\ call' = NoCall
    /\ ret' = NoCall

Start == Machine(session_state, secrets, opened)

\* The answers a connect attempt with inputs p can meet: none when the inputs are refused
ConnectOutsFor(p) == IF p.account = "" \/ p.user = "" THEN {NoOuts} ELSE ConnectOuts

ConnectClicked(E) ==
    /\ session_state.duckdb_conn # NoneConn \/ opened < MaxHandles
    /\ \E p \in E.params, b \in E.browser :
       \E c \in ConnectOutsFor(p) :
         Ran("connect", Script(Start, "connect", [NoInput EXCEPT !.params = p],
                    Outs(c, b, Fail("ERR"), <<>>)))

DisconnectClicked(E) ==
    \E c \in DisconnectOuts :
        Ran("disconnect", Script(Start, "disconnect", NoInput, Outs(c, BrowserAllOk, Fail("ERR"), <<>>)))

\* Any other interaction (a widget changed): the script runs with no button clicked
Rerun(E) ==
    \E b \in E.browser :
        Ran("none", Script(Start, "none", NoInput, Outs(NoOuts, b, Fail("ERR"), <<>>)))

LoadPreviewClicked(E) ==
    /\ tabs_rendered
    /\ session_state.current_table # None
    /\ \E b \in E.preview :
         Ran("load_preview", Script(Start, "load_preview", NoInput, Outs(NoOuts, b, Fail("ERR"), <<>>)))

SfRunClicked(E) ==
    /\ tabs_rendered
    /\ Now(session_state.query_history) <= E.max_ts
    /\ \E sql \in E.sf_sqls, out \in E.sf_outs, b \in E.browser :
         Ran("sf_run", Script(Start, "sf_run", [NoInput EXCEPT !.sf_sql = sql], Outs(NoOuts, b, out, <<>>)))

SfExplainClicked(E) ==
    /\ tabs_rendered
    /\ Now(session_state.query_history) <= E.max_ts
    /\ \E sql \in E.sf_sqls, out \in E.sf_outs, b \in E.browser :
         Ran("sf_explain", Script(Start, "sf_explain", [NoInput EXCEPT !.sf_sql = sql], Outs(NoOuts, b, out, <<>>)))

LocalRunClicked(E) ==
    /\ tabs_rendered
    /\ Now(session_state.query_history) <= E.max_ts
    /\ LocalCount(session_state.query_history) < E.max_local
    /\ \E sql \in E.local_sqls, b \in E.browser :
         \E outs \in SeqsOf(E.local_outs, Len(Statements(sql))) :
            Ran("local_run", Script(Start, "local_run", [NoInput EXCEPT !.local_sql = sql],
                       Outs(NoOuts, b, Fail("ERR"), outs)))

ClearHistoryClicked(E) ==
    /\ tabs_rendered
    /\ session_state.query_history # <<>>
    /\ \E b \in E.browser :
         Ran("clear_history", Script(Start, "clear_history", NoInput, Outs(NoOuts, b, Fail("ERR"), <<>>)))

-----------------------------------------------------------------------------
(* The session: from the defaults, any sequence of script runs *)

Init ==
    /\ session_state = _DEFAULTS
    /\ secrets = <<>>
    /\ opened = 0
    /\ log = <<>>
    /\ tabs_rendered = FALSE
    /\ clicked = "none"
    /\ call = NoCall
    /\ ret = NoCall

Next ==
    \/ ConnectClicked(Env)
    \/ DisconnectClicked(Env)
    \/ Rerun(Env)
    \/ LoadPreviewClicked(Env)
    \/ SfRunClicked(Env)
    \/ SfExplainClicked(Env)
    \/ LocalRunClicked(Env)
    \/ ClearHistoryClicked(Env)

Spec == Init /\ [][Next]_vars

-----------------------------------------------------------------------------
(* The history filled past its cap: from the state a successful connect    *)
(* leaves, any sequence of runs and history clears                         *)

Connected ==
    Script(Machine(_DEFAULTS, <<>>, 0), "connect",
           [NoInput EXCEPT !.params = Params("Password", "xy12345", "alice", "secret",
                                             "", "", "", "", "", "")],
           Outs(ConnectOut(TRUE, TRUE, TRUE, TRUE, TRUE, TRUE), BrowserAllOk, Fail("ERR"), <<>>))

\* The variables hold what the run r left
Left(r) ==
    /\ session_state = r.m.ss
    /\ secrets = r.m.secrets
    /\ opened = r.m.opened
    /\ log = r.m.log
    /\ tabs_rendered = r.rendered
    /\ clicked = "connect"
    /\ call = NoCall
    /\ ret = NoCall

HistInit == Left(Connected)

HistNext ==
    \/ SfRunClicked(HistEnv)
    \/ LocalRunClicked(HistEnv)
    \/ ClearHistoryClicked(HistEnv)

HistSpec == HistInit /\ [][HistNext]_vars

-----------------------------------------------------------------------------
(* The helper functions called directly: from the state a connect attempt  *)
(* whose LOAD failed leaves (an engine behind the cached handle, no        *)
(* secret), any sequence of calls with arguments and engine answers drawn  *)
(* from bounded sets.  The engine keeps its secrets from call to call.     *)

MaxSqlLen == 3       \* atoms in a remote SQL text

SqlAtoms == {Quote, "a"}

\* The texts of at most n atoms
TextsUpTo(n) == UNION {SeqsOf(SqlAtoms, k) : k \in 0..n}

SqlQuotedAB == <<"SELECT ", Quote, "a", Quote, Quote, "b", Quote>>

FnSfSqls == TextsUpTo(MaxSqlLen) \cup {SqlSelect1, SqlQuotedAB}

FnSecrets == {ReservedSecret, "other_secret"}

\* Every method with every combination of materials, those of the other methods included
FnParams ==
    [auth_method : {"Password", "Key Pair", "OAuth Token"},
     account : {"xy12345"}, user : {"alice"},
     password : {"", "secret"}, oauth_token : {"", "tok"},
     private_key_pem : {"PEM"}, private_key_passphrase : {"", "pp"},
     warehouse : {""}, database : {"DB"}, role : {""}]

FnSqls ==
    { <<LocalSelect>>,
      DropSecretSql(ReservedSecret),
      <<CreateHead, ReservedSecret, " (", "TYPE snowflake", ")", Semi>>,
      Wrapper(SqlSelect1, ReservedSecret) }

FnOuts == {Fail("ERR"), Ok(DfOne, 2), Ok(DfNoRows, 1)}

DfUpper == [columns |-> <<"KIND", "NAME">>, rows |-> << <<"k1", "DB1">>, <<"k2", "DB2">> >>]
DfNullFirst == [columns |-> <<"SCHEMA_NAME">>, rows |-> << <<NULL>>, <<"PUBLIC">> >>]

FetchOuts ==
    {Fail("ERR"), Ok(DfNoRows, 1), Ok(DfDatabases, 1), Ok(DfUpper, 1), Ok(DfSchemas, 1),
     Ok(DfNullFirst, 1)}

FetchCols == {ByName("name"), ByName("Name"), ByName("missing"), ByIndex(0), ByIndex(1), ByIndex(2)}

LoadFailed ==
    Script(Machine(_DEFAULTS, <<>>, 0), "connect",
           [NoInput EXCEPT !.params = Params("Password", "xy12345", "alice", "secret",
                                             "", "", "", "", "", "")],
           Outs(ConnectOut(TRUE, FALSE, TRUE, TRUE, TRUE, TRUE), BrowserAllOk, Fail("ERR"), <<>>))

FnInit == Left(LoadFailed)

\* The state after a direct call c that left the machine m and returned result
Returned(c, m, result) ==
    /\ call' = c
    /\ ret' = result
    /\ session_state' = m.ss
    /\ secrets' = m.secrets
    /\ opened' = m.opened
    /\ log' = m.log
    /\ UNCHANGED <<tabs_rendered, clicked>>

CreateSecretReturned(c, r) == Returned(c, r.m, [ok |-> r.ok, msg |-> r.msg])

QueryReturned(c, r) ==
    Returned(c, r.m, [raised |-> r.raised, df |-> r.df, elapsed |-> r.elapsed, err |-> r.err])

FetchReturned(c, r) == Returned(c, r.m, [raised |-> r.raised, list |-> r.list])

CallCreateSecret ==
    \E name \in FnSecrets, p \in FnParams, drop \in BOOLEAN, create \in BOOLEAN :
        CreateSecretReturned(
            [fn |-> "_create_secret", secret_name |-> name, p |-> p,
             o |-> ConnectOut(TRUE, TRUE, TRUE, drop, create, TRUE),
             held |-> HasSecret(secrets, name)],
            _create_secret(Start, name, p, ConnectOut(TRUE, TRUE, TRUE, drop, create, TRUE)))

CallRunQueryDuckdb ==
    \E sql \in FnSqls, out \in FnOuts :
        QueryReturned([fn |-> "_run_query_duckdb", sql |-> sql, out |-> out],
                      _run_query_duckdb(Start, sql, out))

CallSnowflakeQuery ==
    \E sf_sql \in FnSfSqls, secret \in FnSecrets, out \in FnOuts :
        QueryReturned([fn |-> "_snowflake_query", sf_sql |-> sf_sql, secret |-> secret,
                       out |-> out],
                      _snowflake_query(Start, sf_sql, secret, out))

CallSfFetchList ==
    \E secret \in FnSecrets, col \in FetchCols, out \in FetchOuts :
        FetchReturned([fn |-> "_sf_fetch_list", sf_sql |-> ShowDatabasesSql, secret |-> secret,
                       col |-> col, out |-> out],
                      _sf_fetch_list(Start, ShowDatabasesSql, secret, col, out))

FnNext ==
    \/ CallCreateSecret
    \/ CallRunQueryDuckdb
    \/ CallSnowflakeQuery
    \/ CallSfFetchList

FnSpec == FnInit /\ [][FnNext]_vars

-----------------------------------------------------------------------------
(* Properties.  C1, C2, C3 and C5 are about the session (Spec), C4 about    *)
(* the history filled past its cap (HistSpec), C6 to C10 about the helper  *)
(* functions (FnSpec).                                                     *)

\* The last script run executed the connect handler's test query and it returned
ConnectSucceeded ==
    \E i \in 1..Len(log) : log[i].sql = TestSql(ReservedSecret) /\ log[i].ok

(* C1, as stated: after a script run for a click on Connect in which a      *)
(* sub-step of the attempt failed (the inputs were refused, or the load of *)
(* the extension, the creation of the secret or the test query failed),    *)
(* the session is Disconnected: connected = FALSE.                         *)
C1_ConnectFailsClosed ==
    (clicked = "connect" /\ ~ConnectSucceeded) => ~session_state.connected

(* C1: a connect attempt on a Connected session dropped the secret, failed  *)
(* to create it again, and the session is still Connected                  *)
C1_StaysConnected ==
    /\ clicked = "connect"
    /\ ~ConnectSucceeded
    /\ session_state.connected
    /\ ~HasSecret(secrets, ReservedSecret)

(* C2: after a script run for a click on Disconnect, whatever the DROP      *)
(* SECRET and DETACH calls did, connected = FALSE, secret_name = "", no    *)
(* handle is cached and the browse selections are cleared.                 *)
C2_DisconnectResets ==
    clicked = "disconnect" =>
        /\ session_state.connected = FALSE
        /\ session_state.secret_name = ""
        /\ session_state.duckdb_conn = NoneConn
        /\ session_state.current_db = None
        /\ session_state.current_schema = None
        /\ session_state.current_table = None

\* C2: a disconnect whose DROP SECRET raised
C2_DropRaised ==
    /\ clicked = "disconnect"
    /\ log # <<>>
    /\ log[1].sql[1] = DropHead
    /\ ~log[1].ok

(* C3, as stated: after a script run for a click on Disconnect every field  *)
(* of the session state equals its default.                                *)
C3_FullReset == clicked = "disconnect" => session_state = _DEFAULTS

(* C3, amended: a script run for a click on Disconnect leaves connected,    *)
(* secret_name, attach_alias, the browse selections, the handle and the    *)
(* extension-loaded flag at their defaults, and leaves the connection      *)
(* preview, the last result, query, elapsed time and row count and the     *)
(* query history as they were before the click.                            *)
C3_PartialReset ==
    [][clicked' = "disconnect" =>
        /\ session_state'.connected = _DEFAULTS.connected
        /\ session_state'.secret_name = _DEFAULTS.secret_name
        /\ session_state'.attach_alias = _DEFAULTS.attach_alias
        /\ session_state'.current_db = _DEFAULTS.current_db
        /\ session_state'.current_schema = _DEFAULTS.current_schema
        /\ session_state'.current_table = _DEFAULTS.current_table
        /\ session_state'.duckdb_conn = _DEFAULTS.duckdb_conn
        /\ session_state'.extension_loaded = _DEFAULTS.extension_loaded
        /\ session_state'.conn_string_preview = session_state.conn_string_preview
        /\ session_state'.last_result = session_state.last_result
        /\ session_state'.last_query = session_state.last_query
        /\ session_state'.last_elapsed = session_state.last_elapsed
        /\ session_state'.last_row_count = session_state.last_row_count
        /\ session_state'.query_history = session_state.query_history]_vars

\* C3: a disconnect that left a connection preview, a last result and a history behind
C3_KeptAfterDisconnect ==
    /\ clicked = "disconnect"
    /\ session_state.conn_string_preview # <<>>
    /\ session_state.last_result # NoneDf
    /\ session_state.query_history # <<>>

(* C4: the history holds at most 50 entries, most recent first (the entry   *)
(* inserted n-th since the history was last empty carries time n, and the  *)
(* times fall by one from the front); once 51 entries have been inserted   *)
(* the first one is absent; and each insertion puts the new entry at the   *)
(* front, ahead of the entries that were there, of which the 49 most       *)
(* recent are kept.                                                        *)
C4_HistoryCapped ==
    /\ [](LET h == session_state.query_history
          IN /\ Len(h) <= HistoryCap
             /\ \A i \in 1..(Len(h) - 1) : h[i].ts = h[i + 1].ts + 1
             /\ h # <<>> =>
                    h[Len(h)].ts = (IF h[1].ts > HistoryCap THEN h[1].ts - HistoryCap + 1 ELSE 1)
             /\ (h # <<>> /\ h[1].ts >= HistoryCap + 1) =>
                    /\ Len(h) = HistoryCap
                    /\ \A i \in 1..Len(h) : h[i].ts # 1)
    /\ [][(session_state'.query_history # session_state.query_history
           /\ clicked' # "clear_history") =>
            LET h == session_state.query_history
                g == session_state'.query_history
            IN /\ g # <<>>
               /\ g[1].ts = Now(h)
               /\ \A i \in 1..Len(h) : g[1].ts > h[i].ts
               /\ Tail(g) = SubSeq(h, 1, IF Len(h) < HistoryCap THEN Len(h)
                                         ELSE HistoryCap - 1)]_vars

\* C4: the 51st insertion was made: 50 entries, the newest at the front, a local one among them
C4_FiftyFirstInserted ==
    /\ Len(session_state.query_history) = 50
    /\ session_state.query_history[1].ts = 51
    /\ session_state.query_history[50].ts = 2
    /\ \E i \in 1..50 : session_state.query_history[i].mode = "duckdb_local"

(* C5, as stated: over any sequence of actions of a session no more than    *)
(* one engine is ever opened.                                              *)
C5_OneHandlePerSession == opened <= 1

(* C5, amended: the cached handle, when there is one, is the engine opened  *)
(* last; a script run opens at most one engine, and opens one only when no *)
(* handle is cached before it, caching the new one; a cached handle stays  *)
(* the cached handle until a disconnect.  (A session opens one engine per  *)
(* connect that follows a disconnect.)                                     *)
C5_OneHandleAtATime ==
    /\ [](session_state.duckdb_conn \in {NoneConn, opened})
    /\ [][/\ opened' \in {opened, opened + 1}
          /\ opened' = opened + 1 =>
                /\ session_state.duckdb_conn = NoneConn
                /\ session_state'.duckdb_conn = opened'
          /\ (session_state.duckdb_conn # NoneConn /\ clicked' # "disconnect") =>
                session_state'.duckdb_conn = session_state.duckdb_conn]_vars

\* C5: a second engine of the session is behind the cached handle of a Connected session
C5_SecondHandle ==
    /\ opened = 2
    /\ session_state.duckdb_conn = 2
    /\ session_state.connected

\* The number of statements of the log that begin with head
CountOf(head) == Cardinality({i \in 1..Len(log) : log[i].sql[1] = head})

(* C6: the engine never holds two secrets with the reserved name; and a     *)
(* call of _create_secret executes exactly two statements, the DROP of the *)
(* name and then the CREATE of the name, the CREATE whatever the DROP did, *)
(* and returns (TRUE, ...) when the CREATE returned, with the secret then  *)
(* held, and (FALSE, the engine's error text) when it raised.              *)
C6_DropThenCreate ==
    /\ Cardinality({i \in 1..Len(secrets) : secrets[i] = ReservedSecret}) <= 1
    /\ call.fn = "_create_secret" =>
        /\ Len(log) = 2
        /\ log[1].sql = <<DropHead, call.secret_name, Semi>>
        /\ log[2].sql[1] = CreateHead
        /\ log[2].sql[2] = call.secret_name
        /\ ret.ok = log[2].ok
        /\ log[2].ok => HasSecret(secrets, call.secret_name)
        /\ ~log[2].ok => ret.msg = call.o.err

\* C6: the DROP raised, the CREATE was executed all the same and returned
C6_DropErrorIgnored ==
    /\ call.fn = "_create_secret"
    /\ call.secret_name = ReservedSecret
    /\ Len(log) = 2
    /\ ~log[1].ok
    /\ log[2].ok
    /\ ret.ok

(* C7: a call of _run_query_duckdb or of _snowflake_query does not raise,   *)
(* executes one statement, and returns (the result frame, the elapsed      *)
(* time, "") when the statement returned and (None, 0, the engine's error  *)
(* text) when it raised.                                                   *)
C7_RunNeverRaises ==
    call.fn \in {"_run_query_duckdb", "_snowflake_query"} =>
        /\ ~ret.raised
        /\ Len(log) = 1
        /\ call.fn = "_run_query_duckdb" => log[1].sql = call.sql
        /\ log[1].ok =>
            /\ ret.df = call.out.df
            /\ ret.elapsed = call.out.elapsed
            /\ ret.err = ""
        /\ ~log[1].ok =>
            /\ ret.df = NoneDf
            /\ ret.elapsed = 0
            /\ ret.err = call.out.err

\* C7: a remote query that the engine refused: nothing raised, the error text returned
C7_RemoteFailed ==
    /\ call.fn = "_snowflake_query"
    /\ Len(log) = 1
    /\ ~log[1].ok
    /\ ret.df = NoneDf
    /\ ret.err = "ERR"

\* The cells of column i of a frame, as texts
TextsOfColumn(df, i) ==
    [r \in 1..Len(df.rows) |-> IF df.rows[r][i] = NULL THEN "None" ELSE df.rows[r][i]]

\* The same without the null cells
TextsOfNonNull(df, i) ==
    SelectSeq([r \in 1..Len(df.rows) |-> df.rows[r][i]], LAMBDA c : c # NULL)

\* The columns of a frame whose name is n but for the case of its letters
NamedLike(df, n) == {i \in 1..Len(df.columns) : Lower(df.columns[i]) = Lower(n)}

\* The least number of a non-empty set of numbers
Least(S) == CHOOSE i \in S : \A j \in S : i <= j

\* The remote query of the last call failed, or its result was empty
FetchedNothing ==
    \/ ~log[1].ok
    \/ Len(call.out.df.rows) = 0
    \/ Len(call.out.df.columns) = 0

(* C8, as stated: a call of _sf_fetch_list whose query failed or returned   *)
(* an empty result does not raise and returns the empty list, whatever the *)
(* selector; on a non-empty result and a name it returns the column        *)
(* matched by name without regard to case, or the first column when no     *)
(* column matches.                                                         *)
C8_ReturnsColumn ==
    call.fn = "_sf_fetch_list" =>
        /\ FetchedNothing => (~ret.raised /\ ret.list = <<>>)
        /\ (~FetchedNothing /\ IsName(call.col)) =>
            /\ ~ret.raised
            /\ ret.list = TextsOfColumn(call.out.df,
                                        IF NamedLike(call.out.df, call.col.name) # {}
                                        THEN Least(NamedLike(call.out.df, call.col.name))
                                        ELSE 1)

(* C8, amended: a call of _sf_fetch_list whose query failed or returned an  *)
(* empty result does not raise and returns the empty list, whatever the    *)
(* selector; on a non-empty result and a name it returns the non-null      *)
(* cells of the first column matched by name without regard to case, or    *)
(* all the cells of the first column when no column matches; on a          *)
(* non-empty result and a position it returns all the cells of the column  *)
(* at that position, and raises when the frame has no such column.         *)
C8_ReturnsNonNullOfColumn ==
    call.fn = "_sf_fetch_list" =>
        /\ FetchedNothing => (~ret.raised /\ ret.list = <<>>)
        /\ (~FetchedNothing /\ IsName(call.col)) =>
            /\ ~ret.raised
            /\ NamedLike(call.out.df, call.col.name) # {} =>
                ret.list = TextsOfNonNull(call.out.df,
                                          Least(NamedLike(call.out.df, call.col.name)))
            /\ NamedLike(call.out.df, call.col.name) = {} =>
                ret.list = TextsOfColumn(call.out.df, 1)
        /\ (~FetchedNothing /\ ~IsName(call.col)) =>
            IF call.col.index < Len(call.out.df.columns)
            THEN ~ret.raised /\ ret.list = TextsOfColumn(call.out.df, call.col.index + 1)
            ELSE ret.raised

\* C8: a column matched by a name written in another case, one of its cells null
C8_NullInMatchedColumn ==
    /\ call.fn = "_sf_fetch_list"
    /\ ~FetchedNothing
    /\ call.col = ByName("Name")
    /\ call.out.df = DfDatabases
    /\ ret.list = <<"DB1">>

\* The texts that follow the keyword key in a statement: key ' text '
ClauseValues(sql, key) == {sql[i + 2] : i \in {j \in 1..(Len(sql) - 3) : sql[j] = key}}

AuthKeys == {"PASSWORD ", "AUTH_TYPE ", "PRIVATE_KEY ", "PRIVATE_KEY_PASSPHRASE ", "TOKEN "}

\* The auth clauses of a statement: the keywords present, each with the texts that follow it
AuthClauses(sql) ==
    {[key |-> k, values |-> ClauseValues(sql, k)] :
        k \in {a \in AuthKeys : ClauseValues(sql, a) # {}}}

\* The number of places of a statement where an auth keyword stands
AuthClauseCount(sql) == Cardinality({i \in 1..Len(sql) : sql[i] \in AuthKeys})

(* C9: a call of _create_secret with an account, a user and one of the      *)
(* three methods executes one DROP and one CREATE statement, and the auth  *)
(* clauses of the CREATE are those of the method and no other: PASSWORD    *)
(* 'password' for Password; AUTH_TYPE 'key_pair' and PRIVATE_KEY 'pem',    *)
(* with PRIVATE_KEY_PASSPHRASE 'passphrase' when and only when the         *)
(* passphrase is not empty, for Key Pair; AUTH_TYPE 'oauth' and TOKEN      *)
(* 'token' for OAuth Token.                                                *)
C9_AuthClauses ==
    (/\ call.fn = "_create_secret"
     /\ call.p.account # ""
     /\ call.p.user # "") =>
        /\ Len(log) = 2
        /\ CountOf(DropHead) = 1
        /\ CountOf(CreateHead) = 1
        /\ \E i \in 1..Len(log) :
            /\ log[i].sql[1] = CreateHead
            /\ AuthClauses(log[i].sql) =
                (CASE call.p.auth_method = "Password" ->
                        {[key |-> "PASSWORD ", values |-> {call.p.password}]}
                   [] call.p.auth_method = "Key Pair" ->
                        {[key |-> "AUTH_TYPE ", values |-> {"key_pair"}],
                         [key |-> "PRIVATE_KEY ", values |-> {call.p.private_key_pem}]}
                        \cup (IF call.p.private_key_passphrase # ""
                              THEN {[key |-> "PRIVATE_KEY_PASSPHRASE ",
                                     values |-> {call.p.private_key_passphrase}]}
                              ELSE {})
                   [] call.p.auth_method = "OAuth Token" ->
                        {[key |-> "AUTH_TYPE ", values |-> {"oauth"}],
                         [key |-> "TOKEN ", values |-> {call.p.oauth_token}]})
            /\ AuthClauseCount(log[i].sql) = Cardinality(AuthClauses(log[i].sql))

\* C9: a Key Pair secret created while a password and a token were given too
C9_KeyPairAmongMaterials ==
    /\ call.fn = "_create_secret"
    /\ call.p.auth_method = "Key Pair"
    /\ call.p.password = "secret"
    /\ call.p.oauth_token = "tok"
    /\ call.p.private_key_passphrase = ""
    /\ log[2].ok

RECURSIVE Halve(_)
\* The text with each pair of adjacent quotes made one quote; a single quote is marked
Halve(t) ==
    IF t = <<>> THEN <<>>
    ELSE IF Head(t) = Quote
    THEN IF Len(t) >= 2 /\ t[2] = Quote
         THEN <<Quote>> \o Halve(Tail(Tail(t)))
         ELSE <<"unpaired">> \o Halve(Tail(t))
    ELSE <<Head(t)>> \o Halve(Tail(t))

QuoteCount(t) == Cardinality({i \in 1..Len(t) : t[i] = Quote})

\* Text part occurs in text t
Contains(t, part) ==
    \E i \in 0..(Len(t) - Len(part)) : SubSeq(t, i + 1, i + Len(part)) = part

\* The statement of the last call without its head and its tail: the embedded text
Embedded == SubSeq(log[1].sql, 3, Len(log[1].sql) - 7)

(* C10: the statement _snowflake_query executes is the wrapper's head, the  *)
(* embedded text in quotes, and the secret's name, as given, in quotes     *)
(* before the closing parenthesis and semicolon; the embedded text is the  *)
(* remote text with each quote doubled and nothing else changed, so that   *)
(* halving the pairs gives the remote text back (two remote texts are      *)
(* never embedded alike).  SELECT 1 with sf_explorer_secret gives          *)
(* SELECT * FROM snowflake_query('SELECT 1', 'sf_explorer_secret'); and    *)
(* SELECT 'a''b' gives a statement containing 'a''''b'.                    *)
C10_EscapingInjective ==
    call.fn = "_snowflake_query" =>
        /\ Len(log) = 1
        /\ Len(log[1].sql) >= 9
        /\ SubSeq(log[1].sql, 1, 2) = <<PassthroughHead, Quote>>
        /\ SubSeq(log[1].sql, Len(log[1].sql) - 6, Len(log[1].sql))
               = <<Quote, ", ", Quote, call.secret, Quote, ")", Semi>>
        /\ Halve(Embedded) = call.sf_sql
        /\ QuoteCount(Embedded) = 2 * QuoteCount(call.sf_sql)
        /\ Len(Embedded) = Len(call.sf_sql) + QuoteCount(call.sf_sql)
        /\ (call.sf_sql = SqlSelect1 /\ call.secret = ReservedSecret) =>
               log[1].sql = <<"SELECT * FROM snowflake_query(", Quote, "SELECT 1", Quote, ", ",
                              Quote, "sf_explorer_secret", Quote, ")", Semi>>
        /\ call.sf_sql = SqlQuotedAB =>
               Contains(log[1].sql, <<Quote, "a", Quote, Quote, Quote, Quote, "b", Quote>>)

\* C10: the remote text SELECT 'a''b' was wrapped and executed
C10_QuotedWrapped ==
    /\ call.fn = "_snowflake_query"
    /\ call.sf_sql = SqlQuotedAB
    /\ call.secret = ReservedSecret
    /\ log[1].ok

-----------------------------------------------------------------------------
(* The extension: from the defaults, any sequence of direct calls of       *)
(* _ensure_extension on the cached handle (opened at need, as at its call  *)
(* site), of connect attempts and of disconnects.                          *)

EnsureReturned(c, r) == Returned(c, r.m, [ok |-> r.ok, detail |-> r.detail])

CallEnsureExtension ==
    /\ session_state.duckdb_conn # NoneConn \/ opened < MaxHandles
    /\ \E install \in BOOLEAN, load \in BOOLEAN, version \in BOOLEAN :
        EnsureReturned(
            [fn |-> "_ensure_extension", loaded |-> session_state.extension_loaded,
             o |-> ConnectOut(install, load, version, TRUE, TRUE, TRUE)],
            _ensure_extension(_get_duckdb(Start),
                              ConnectOut(install, load, version, TRUE, TRUE, TRUE)))

ExtNext ==
    \/ CallEnsureExtension
    \/ ConnectClicked(Env)
    \/ DisconnectClicked(Env)

ExtSpec == Init /\ [][ExtNext]_vars

\* The statements of a log that install or load the extension
LoadStatements(l) == {i \in 1..Len(l) : l[i].sql \in {InstallSql, LoadSql}}

(* C11: a call of _ensure_extension made while the loaded flag is set       *)
(* executes no statement and returns (TRUE, "already loaded"); one made    *)
(* while it is not set executes INSTALL and then LOAD, returns (FALSE, the *)
(* error text) with the flag still unset when the LOAD raised, and         *)
(* otherwise fetches the version, sets the flag and returns (TRUE, ...)    *)
(* whatever the INSTALL and the version fetch did.  The flag is set only   *)
(* while a handle is cached, stays set as long as the handle is cached     *)
(* (until a disconnect), and no step taken while it is set and that keeps  *)
(* the handle executes an INSTALL or a LOAD.                               *)
C11_EnsureIdempotent ==
    /\ [](/\ session_state.extension_loaded => session_state.duckdb_conn # NoneConn
          /\ (call.fn = "_ensure_extension" /\ call.loaded) =>
                /\ log = <<>>
                /\ ret = [ok |-> TRUE, detail |-> "already loaded"]
          /\ (call.fn = "_ensure_extension" /\ ~call.loaded) =>
                /\ Len(log) >= 2
                /\ log[1].sql = InstallSql
                /\ log[2].sql = LoadSql
                /\ ~log[2].ok =>
                    /\ Len(log) = 2
                    /\ ret = [ok |-> FALSE, detail |-> call.o.err]
                    /\ ~session_state.extension_loaded
                /\ log[2].ok =>
                    /\ Len(log) = 3
                    /\ log[3].sql = VersionSql
                    /\ ret.ok
                    /\ session_state.extension_loaded)
    /\ [][(session_state.extension_loaded /\ session_state'.duckdb_conn # NoneConn) =>
            /\ session_state'.extension_loaded
            /\ LoadStatements(log') = {}]_vars

(* C11: the extension was loaded although the INSTALL and the version      *)
(* fetch raised                                                            *)
C11_LoadedDespiteFailures ==
    /\ call.fn = "_ensure_extension"
    /\ ~call.loaded
    /\ Len(log) = 3
    /\ ~log[1].ok
    /\ log[2].ok
    /\ ~log[3].ok
    /\ ret = [ok |-> TRUE, detail |-> "unknown"]
    /\ session_state.extension_loaded

-----------------------------------------------------------------------------
(* Properties of the run actions, about the session (Spec) *)

RunClicks == {"sf_run", "sf_explain", "local_run"}

\* The first atoms of the remote texts the browser sends
BrowseHeads ==
    { ShowDatabasesSql[1], SchemataSql("d")[1], TablesSql("d", "s")[1],
      ColumnsSql("d", "s", "t")[1], CountSql("d", "s", "t")[1], PreviewSql("d", "s", "t")[1] }

\* Statement sql is one of the browser's fetches
IsBrowse(sql) == Len(sql) >= 3 /\ sql[1] = PassthroughHead /\ sql[3] \in BrowseHeads

\* The statements of a log that are not the browser's: where they stand, in order
RunStatements(l) == SelectSeq([i \in 1..Len(l) |-> i], LAMBDA i : ~IsBrowse(l[i].sql))

\* Those of them that returned
RunReturned(l) == SelectSeq(RunStatements(l), LAMBDA i : l[i].ok)

\* The text a history entry holds for the statement sql executed by the run for click
EntryText(click, sql) ==
    IF click = "local_run" THEN sql ELSE Halve(SubSeq(sql, 3, Len(sql) - 7))

(* C12: a script run for anything but a Run or Explain click or a history   *)
(* clear (a connect, a disconnect, a rerun, a preview load, with all the   *)
(* browser's fetches they make) leaves the history as it was; a run for a  *)
(* Run or Explain click puts in front of the history one entry for each of *)
(* its statements that returned, the latest first, holding that            *)
(* statement's text, and none for a statement that raised.                 *)
C12_HistoryOnlyFromRuns ==
    [][clicked' # "clear_history" =>
        LET h == session_state.query_history
            g == session_state'.query_history
            ok == RunReturned(log')
        IN IF clicked' \in RunClicks
           THEN /\ Len(g) = Len(h) + Len(ok)
                /\ SubSeq(g, Len(ok) + 1, Len(g)) = h
                /\ \A k \in 1..Len(ok) :
                     g[Len(ok) + 1 - k].sql = EntryText(clicked', log'[ok[k]].sql)
           ELSE g = h]_vars

(* C12: a local run of two statements of which the first raised and the     *)
(* second returned, after the browser's fetches: one entry, for the second *)
C12_FailedAddsNoEntry ==
    /\ clicked = "local_run"
    /\ Len(RunStatements(log)) = 2
    /\ ~log[RunStatements(log)[1]].ok
    /\ log[RunStatements(log)[2]].ok
    /\ \E i \in 1..Len(log) : IsBrowse(log[i].sql) /\ log[i].ok
    /\ Len(session_state.query_history) = 1
    /\ session_state.query_history[1].sql = log[RunStatements(log)[2]].sql

(* C13, as stated: after a script run for a Run or Explain click, remote or *)
(* local, in which a statement returned, the last query, row count and     *)
(* elapsed time are those of the latest statement that returned (the one   *)
(* the front entry of the history records) and the last result is its      *)
(* frame.                                                                  *)
C13_LastIsLatest ==
    (clicked \in RunClicks /\ RunReturned(log) # <<>>) =>
        /\ session_state.last_query = session_state.query_history[1].sql
        /\ session_state.last_row_count = session_state.query_history[1].rows
        /\ FormatTime(session_state.last_elapsed) = session_state.query_history[1].time
        /\ session_state.last_result # NoneDf
        /\ Len(session_state.last_result.rows) = session_state.last_row_count

\* The last result, query, elapsed time and row count of a session state
LastOf(ss) ==
    [result |-> ss.last_result, query |-> ss.last_query, elapsed |-> ss.last_elapsed,
     row_count |-> ss.last_row_count]

(* C13, amended: a script run for a remote Run or Explain click whose       *)
(* statement returned replaces the last result, query, elapsed time and    *)
(* row count by those of that statement (the frame and the time the engine *)
(* answered, the text sent, the frame's number of rows), whatever they     *)
(* were; every other script run, a local Run whose statements returned     *)
(* included, leaves the four as they were.                                 *)
C13_LastIsLatestRemote ==
    [][IF clicked' \in {"sf_run", "sf_explain"} /\ RunReturned(log') # <<>>
       THEN /\ \E out \in Env.sf_outs :
                 /\ out.ok
                 /\ session_state'.last_result = out.df
                 /\ session_state'.last_elapsed = out.elapsed
            /\ session_state'.last_query =
                 EntryText(clicked', log'[RunReturned(log')[1]].sql)
            /\ session_state'.last_row_count = Len(session_state'.last_result.rows)
            /\ session_state'.last_query = session_state'.query_history[1].sql
            /\ session_state'.last_row_count = session_state'.query_history[1].rows
            /\ FormatTime(session_state'.last_elapsed) = session_state'.query_history[1].time
       ELSE LastOf(session_state') = LastOf(session_state)]_vars

(* C13: a local statement returned and was recorded, and the last result    *)
(* is still that of an earlier remote query                                *)
C13_LocalLeavesLast ==
    /\ clicked = "local_run"
    /\ RunReturned(log) # <<>>
    /\ session_state.query_history # <<>>
    /\ session_state.query_history[1].mode = "duckdb_local"
    /\ session_state.last_result # NoneDf
    /\ session_state.last_query # session_state.query_history[1].sql

\* The statements of a log that are not the browser's and raised
RunRaised(l) == SelectSeq(RunStatements(l), LAMBDA i : ~l[i].ok)

(* C14: a script run for a Run or Explain click, remote or local, in which  *)
(* a statement raised leaves connected, secret_name, the cached handle,    *)
(* the extension-loaded flag and the last result as they were, and adds to *)
(* the history entries for the statements that returned only; when none of *)
(* its statements returned the history and the engine's secrets are as     *)
(* they were too.                                                          *)
C14_ErrorsNonFatal ==
    [][(clicked' \in RunClicks /\ RunRaised(log') # <<>>) =>
        /\ session_state'.connected = session_state.connected
        /\ session_state'.connected
        /\ session_state'.secret_name = session_state.secret_name
        /\ session_state'.duckdb_conn = session_state.duckdb_conn
        /\ session_state'.duckdb_conn # NoneConn
        /\ session_state'.extension_loaded = session_state.extension_loaded
        /\ session_state'.last_result = session_state.last_result
        /\ Len(session_state'.query_history)
             = Len(session_state.query_history) + Len(RunReturned(log'))
        /\ RunReturned(log') = <<>> =>
            /\ session_state'.query_history = session_state.query_history
            /\ secrets' = secrets]_vars

(* C14: a remote statement raised in a Connected session that holds a last  *)
(* result and its secret                                                   *)
C14_RemoteRaised ==
    /\ clicked \in {"sf_run", "sf_explain"}
    /\ RunRaised(log) # <<>>
    /\ session_state.connected
    /\ session_state.last_result # NoneDf
    /\ HasSecret(secrets, ReservedSecret)

-----------------------------------------------------------------------------
(* The connect handler alone: from the defaults, any sequence of runs of   *)
(* the handler's block, with its inputs and the flags before it recorded,  *)
(* and of disconnects.                                                     *)

HandlerParams ==
    SidebarParams \cup {Params("Password", "xy12345", "", "secret", "", "", "", "", "", "")}

HandlerReturned(c, m) == Returned(c, m, [connected |-> m.ss.connected])

CallConnectHandler ==
    /\ session_state.duckdb_conn # NoneConn \/ opened < MaxHandles
    /\ \E p \in HandlerParams, c \in ConnectOuts :
        HandlerReturned([fn |-> "connect_clicked", p |-> p, o |-> c,
                         before |-> session_state, opened |-> opened],
                        ConnectHandler(Start, p, c))

ConnNext ==
    \/ CallConnectHandler
    \/ DisconnectClicked(Env)

ConnSpec == Init /\ [][ConnNext]_vars

\* The step of a connect attempt a statement belongs to: 2 extension, 3 secret, 4 test
StepOf(sql) ==
    IF sql \in {InstallSql, LoadSql, VersionSql} THEN 2
    ELSE IF sql[1] \in {DropHead, CreateHead} THEN 3
    ELSE IF sql = TestSql(ReservedSecret) THEN 4
    ELSE 0

\* The log holds a statement of step k
Did(k) == \E i \in 1..Len(log) : StepOf(log[i].sql) = k

\* Statement i of the log is the one that decides its step, and it returned
Passed(i) ==
    /\ log[i].ok
    /\ \/ log[i].sql = LoadSql
       \/ log[i].sql[1] = CreateHead
       \/ log[i].sql = TestSql(ReservedSecret)

(* C15: a run of the connect handler performs its steps in the order        *)
(* validate, load extension, create secret, test query, each only after    *)
(* the earlier ones succeeded: with an empty account or user it executes   *)
(* no statement, opens no engine and changes nothing; it executes only     *)
(* statements of the three later steps, in the order of the steps; a       *)
(* secret statement only after the LOAD returned (or the extension was     *)
(* loaded before), the test query only after the CREATE returned; and      *)
(* connected is set only by a run whose test query returned.               *)
C15_ConnectOrder ==
    call.fn = "connect_clicked" =>
        /\ (call.p.account = "" \/ call.p.user = "") =>
            /\ log = <<>>
            /\ opened = call.opened
            /\ session_state = call.before
        /\ \A i \in 1..Len(log) : StepOf(log[i].sql) \in {2, 3, 4}
        /\ \A i \in 1..Len(log), j \in 1..Len(log) :
            i < j => StepOf(log[i].sql) <= StepOf(log[j].sql)
        /\ (call.p.account # "" /\ call.p.user # "") =>
            (call.before.extension_loaded \/ (Len(log) >= 2 /\ log[1].sql = InstallSql
                                              /\ log[2].sql = LoadSql))
        /\ Did(3) =>
            \/ call.before.extension_loaded /\ ~Did(2)
            \/ \E i \in 1..Len(log) : log[i].sql = LoadSql /\ Passed(i)
        /\ Did(4) => \E i \in 1..Len(log) : log[i].sql[1] = CreateHead /\ Passed(i)
        /\ (\E i \in 1..Len(log) : log[i].sql = LoadSql /\ ~log[i].ok) => (~Did(3) /\ ~Did(4))
        /\ (\E i \in 1..Len(log) : log[i].sql[1] = CreateHead /\ ~log[i].ok) => ~Did(4)
        /\ (session_state.connected /\ ~call.before.connected) =>
            (log # <<>> /\ log[Len(log)].sql = TestSql(ReservedSecret) /\ Passed(Len(log)))
        /\ (log # <<>> /\ log[Len(log)].sql = TestSql(ReservedSecret) /\ Passed(Len(log))) =>
            session_state.connected

(* C15: the extension was loaded, the secret's creation raised, no test     *)
(* query was sent and the session is not Connected                         *)
C15_StoppedAtSecret ==
    /\ call.fn = "connect_clicked"
    /\ ~call.before.extension_loaded
    /\ Len(log) = 5
    /\ log[2].sql = LoadSql
    /\ log[2].ok
    /\ log[5].sql[1] = CreateHead
    /\ ~log[5].ok
    /\ ~Did(4)
    /\ ~session_state.connected

-----------------------------------------------------------------------------
(* C16, as stated: in every state of the session where connected is true    *)
(* a handle is cached, secret_name is the reserved name and the engine     *)
(* behind the handle holds a secret of that name.                          *)
C16_ConnectedHoldsSecret ==
    session_state.connected =>
        /\ session_state.duckdb_conn # NoneConn
        /\ session_state.secret_name = ReservedSecret
        /\ HasSecret(secrets, ReservedSecret)

(* C16: after a connect attempt on a Connected session whose DROP returned  *)
(* and whose CREATE raised: Connected, the handle cached, secret_name the  *)
(* reserved name, and no such secret in the engine                         *)
C16_ConnectedWithoutSecret ==
    /\ clicked = "connect"
    /\ \E i \in 1..Len(log) : log[i].sql[1] = DropHead /\ log[i].ok
    /\ \E i \in 1..Len(log) : log[i].sql[1] = CreateHead /\ ~log[i].ok
    /\ session_state.connected
    /\ session_state.duckdb_conn # NoneConn
    /\ session_state.secret_name = ReservedSecret
    /\ secrets = <<>>

====
